---------------------------- MODULE Spec2Model ----------------------------
(***************************************************************************)
(* The interactive controller of aianvil-tui (src/ui/mod.rs): the panel    *)
(* focus state machine, the key handler `update`, the reload and merge     *)
(* pipelines, the token count dispatcher and the result aggregator.        *)
(*                                                                         *)
(* The sub-panels (source_files.rs, filters.rs, output.rs, ...), the text  *)
(* source, the writer and the host loop are not part of mod.rs.  Their     *)
(* operations are modelled from the specification and are marked           *)
(* "spec-modelled" below.  Cursor positions, the output file name and the  *)
(* rendered layout are not modelled: no operation of mod.rs branches on    *)
(* them.                                                                   *)
(***************************************************************************)
EXTENDS Naturals, Sequences, FiniteSets

VARIABLES
    focused_panel,        \* App.focused_panel
    destination,          \* App.output_panel.destination
    source_path,          \* App.source_path_panel.value
    prev_source_path,     \* App.prev_source_path
    loaded_files,         \* App.loaded_files (the paths, in list order)
    selected_extensions,  \* App.selected_extensions
    selected_files,       \* App.selected_files
    file_token_status,    \* App.source_files_panel.file_token_status
    title_sum,            \* the aggregate shown by SourceFilesPanel
    text_source,          \* App.text_source is Some
    processing,           \* App.processing
    exit_requested,       \* App.exit_requested
    reload_files_needed,  \* App.reload_files_needed
    merge_needed,         \* App.merge_needed
    tasks,                \* background tasks spawned and not yet finished
    channel,              \* messages sent on token_count_tx, not yet received
    host_pc,              \* the host loop's position
    spawned,              \* history: tasks spawned per path since the last reload
    last_op,              \* history: what the step just taken did
    last_merge,           \* history: what the merge just run did, if the step was one
    reloaded_path         \* history: the path the most recent reload read

vars == << focused_panel, destination, source_path, prev_source_path,
           loaded_files, selected_extensions, selected_files,
           file_token_status, title_sum, text_source, processing,
           exit_requested, reload_files_needed, merge_needed, tasks,
           channel, host_pc, spawned, last_op, last_merge, reloaded_path >>

---------------------------------------------------------------------------
(* Bounds and input domains *)

\* Background tasks running plus messages queued, at most.
MaxInFlight == 2

\* Largest token count a task reports.
MaxTokens == 1

Files == {"a", "b"}

\* Both files carry the same extension: toggling it in the Filters panel
\* selects or deselects more than one file.
Extension(path) == "rs"

PathValues == {"", "src"}

DefaultPath == "src"

TokenCounts == 1..MaxTokens

\* The file index a text source may return: any duplicate-free list of Files
\* (one order per set of paths).
Listings == { <<>>, <<"a">>, <<"b">>, <<"a", "b">> }

---------------------------------------------------------------------------
(* Types *)

Panels == {"SourcePath", "Filters", "SourceFiles", "Output", "OutputFile"}

OutputDestination == {"File", "Clipboard", "FileAndClipboard"}

NotCounted == [tag |-> "NotCounted", n |-> 0]

Counting == [tag |-> "Counting", n |-> 0]

Counted(n) == [tag |-> "Counted", n |-> n]

Failed == [tag |-> "Failed", n |-> 0]

Ok(n) == [ok |-> TRUE, n |-> n]

Err == [ok |-> FALSE, n |-> 0]

Results == { Ok(n) : n \in TokenCounts } \cup { Err }

\* A background task: the path it counts, and whether it was spawned since
\* the last reload (cur) or before it.
TaskKinds == [path : Files, cur : BOOLEAN]

Range(s) == { s[i] : i \in 1..Len(s) }

LoadedPaths == Range(loaded_files)

IsTerminal(s) == s.tag \in {"Counted", "Failed"}

\* No merge has run in the step just taken.
NoMerge ==
    [ran |-> FALSE, keys |-> {}, write_ok |-> FALSE, copy |-> "none",
     copy_error_reported |-> FALSE]

\* No reload has run yet.
NoPath == "<none>"

---------------------------------------------------------------------------
(* Panel focus state machine *)

next_panel(p, d) ==
    CASE p = "SourcePath" -> "Filters"
      [] p = "Filters" -> "SourceFiles"
      [] p = "SourceFiles" -> "Output"
      [] p = "Output" -> IF d = "Clipboard" THEN "SourcePath" ELSE "OutputFile"
      [] p = "OutputFile" -> "SourcePath"

prev_panel(p, d) ==
    CASE p = "SourcePath" -> "OutputFile"
      [] p = "Filters" -> "SourcePath"
      [] p = "SourceFiles" -> "Filters"
      [] p = "Output" -> "SourceFiles"
      [] p = "OutputFile" -> IF d = "Clipboard" THEN "Output" ELSE "Output"

---------------------------------------------------------------------------
(* Token status map and aggregate (SourceFilesPanel, spec-modelled) *)

RECURSIVE SumCounted(_, _)
SumCounted(st, S) ==
    IF S = {} THEN 0
    ELSE LET p == CHOOSE x \in S : TRUE
         IN (IF p \in DOMAIN st /\ st[p].tag = "Counted" THEN st[p].n ELSE 0)
            + SumCounted(st, S \ {p})

\* SourceFilesPanel::update_title_sum: the sum of the Counted values over the
\* selected files.
update_title_sum(st, sel) == SumCounted(st, sel)

\* SourceFilesPanel::set_counting
set_counting(st, path) ==
    IF path \in DOMAIN st THEN [st EXCEPT ![path] = Counting] ELSE st

\* SourceFilesPanel::set_count_result: the transition Counting -> Counted(n)
\* or Counting -> Failed, keyed by path; a message for a path that is not in
\* the map is ignored.
set_count_result(st, path, res) ==
    IF path \in DOMAIN st /\ st[path] = Counting
    THEN [st EXCEPT ![path] = IF res.ok THEN Counted(res.n) ELSE Failed]
    ELSE st

---------------------------------------------------------------------------
(* Token count dispatcher: App::start_token_count_for_selected_files *)

\* Mutant: the test accepts every status.
NeedsCountAnyStatus(st, path) == path \in DOMAIN st

\* The `if let Some(TokenStatus::NotCounted) = ...get(path)` test.
NeedsCount(st, path) == path \in DOMAIN st /\ st[path] = NotCounted

\* The paths the loop body runs for; none when there is no text source.
DispatchPaths(ts, st, sel) ==
    IF ~ts THEN {} ELSE { p \in sel : NeedsCount(st, p) }

\* Mutant: the loop spawns without marking the path Counting.
MarkCountingSkipped(st, marked) == st

\* The status map after the loop: set_counting for each dispatched path.
MarkCounting(st, marked) ==
    [p \in DOMAIN st |-> IF p \in marked THEN set_counting(st, p)[p] ELSE st[p]]

\* Mutant: the lookup in loaded_files never finds the path, so no task is
\* spawned.
SpawnPathsNone(marked, loaded) == {}

\* A task is spawned only for a path found in loaded_files.
SpawnPaths(marked, loaded) == { p \in marked : p \in Range(loaded) }

RECURSIVE SumOver(_, _)
SumOver(f, S) ==
    IF S = {} THEN 0
    ELSE LET k == CHOOSE x \in S : TRUE IN f[k] + SumOver(f, S \ {k})

InFlight == SumOver(tasks, TaskKinds) + Len(channel)

AddTasks(tk, S) ==
    [k \in TaskKinds |-> tk[k] + (IF k.cur /\ k.path \in S THEN 1 ELSE 0)]

---------------------------------------------------------------------------
(* Result aggregator: App::process_token_count_results *)

RECURSIVE ApplyResults(_, _)
ApplyResults(st, q) ==
    IF q = <<>> THEN st
    ELSE ApplyResults(set_count_result(st, Head(q).path, Head(q).res), Tail(q))

\* Mutant: the aggregate is taken over every file of the map, selected or not.
process_token_count_results_all_files(st, sel, q) ==
    LET st2 == ApplyResults(st, q)
    IN [status |-> st2, sum |-> update_title_sum(st2, DOMAIN st2)]

\* The try_recv loop followed by update_title_sum(&self.selected_files).
process_token_count_results(st, sel, q) ==
    LET st2 == ApplyResults(st, q)
    IN [status |-> st2, sum |-> update_title_sum(st2, sel)]

---------------------------------------------------------------------------
(* Initial state: App::new *)

Init ==
    /\ focused_panel = "SourcePath"
    /\ destination = "File"   \* OutputPanel::new (spec-modelled); the user can
                              \* toggle to every other destination
    /\ source_path = DefaultPath
    /\ prev_source_path = DefaultPath
    /\ loaded_files = <<>>
    /\ selected_extensions = {}
    /\ selected_files = {}
    /\ file_token_status = [p \in {} |-> NotCounted]
    /\ title_sum = 0
    /\ text_source = FALSE
    /\ processing = FALSE
    /\ exit_requested = FALSE
    /\ reload_files_needed = FALSE
    /\ merge_needed = FALSE
    /\ tasks = [k \in TaskKinds |-> 0]
    /\ channel = <<>>
    /\ host_pc = "idle"
    /\ spawned = [p \in Files |-> 0]
    /\ last_op = "other"
    /\ last_merge = NoMerge
    /\ reloaded_path = NoPath

---------------------------------------------------------------------------
(* Key handling: App::update.  The handler works on a record of the fields *)
(* it may write; `spawn` collects the paths it spawns a task for.          *)

AppNow ==
    [ focused_panel |-> focused_panel,
      destination |-> destination,
      source_path |-> source_path,
      prev_source_path |-> prev_source_path,
      selected_extensions |-> selected_extensions,
      selected_files |-> selected_files,
      file_token_status |-> file_token_status,
      title_sum |-> title_sum,
      exit_requested |-> exit_requested,
      reload_files_needed |-> reload_files_needed,
      merge_needed |-> merge_needed,
      spawn |-> {},
      op |-> "other" ]

\* FiltersPanel::toggle_selected and SourceFilesPanel::toggle_selected
\* (spec-modelled): the item under the cursor is toggled; toggling an
\* extension selects or deselects the loaded files that carry it.  The
\* aggregate follows the selection.
WithSum(a) ==
    [a EXCEPT !.title_sum = update_title_sum(a.file_token_status, a.selected_files)]

ToggleExtension(a, e) ==
    LET fs == { p \in LoadedPaths : Extension(p) = e }
    IN IF e \in a.selected_extensions
       THEN WithSum([a EXCEPT !.selected_extensions = @ \ {e},
                              !.selected_files = @ \ fs])
       ELSE WithSum([a EXCEPT !.selected_extensions = @ \cup {e},
                              !.selected_files = @ \cup fs])

ToggleFile(a, f) ==
    IF f \in a.selected_files
    THEN WithSum([a EXCEPT !.selected_files = @ \ {f}])
    ELSE WithSum([a EXCEPT !.selected_files = @ \cup {f}])

filters_toggle_selected(a) ==
    IF LoadedPaths = {} THEN {a}
    ELSE { ToggleExtension(a, Extension(p)) : p \in LoadedPaths }

source_files_toggle_selected(a) ==
    IF LoadedPaths = {} THEN {a}
    ELSE { ToggleFile(a, f) : f \in LoadedPaths }

\* App::start_token_count_for_selected_files, on the record.
start_token_count_for_selected_files(a) ==
    LET marked == DispatchPaths(text_source, a.file_token_status, a.selected_files)
        again == text_source
                 /\ \E p \in a.selected_files :
                        p \in DOMAIN a.file_token_status
                        /\ a.file_token_status[p] # NotCounted
    IN [a EXCEPT !.file_token_status = MarkCounting(@, marked),
                 !.spawn = SpawnPaths(marked, loaded_files),
                 !.op = IF again THEN "redispatch"
                        ELSE IF marked # {} THEN "dispatch" ELSE "other"]

\* App::handle_enter
\* Mutant: Enter on Output moves on to OutputFile without the Clipboard test.
handle_enter_without_clipboard_test(a) ==
    CASE a.focused_panel = "SourceFiles" ->
            start_token_count_for_selected_files(
                [a EXCEPT !.focused_panel = next_panel(@, a.destination)])
      [] a.focused_panel = "Output" ->
            [a EXCEPT !.focused_panel = "OutputFile"]
      [] a.focused_panel = "OutputFile" ->
            IF ~processing THEN [a EXCEPT !.merge_needed = TRUE] ELSE a
      [] OTHER ->
            [a EXCEPT !.focused_panel = next_panel(@, a.destination)]

handle_enter(a) ==
    CASE a.focused_panel = "SourceFiles" ->
            start_token_count_for_selected_files(
                [a EXCEPT !.focused_panel = next_panel(@, a.destination)])
      [] a.focused_panel = "Output" ->
            IF a.destination = "Clipboard"
            THEN IF ~processing THEN [a EXCEPT !.merge_needed = TRUE] ELSE a
            ELSE [a EXCEPT !.focused_panel = next_panel(@, a.destination)]
      [] a.focused_panel = "OutputFile" ->
            IF ~processing THEN [a EXCEPT !.merge_needed = TRUE] ELSE a
      [] OTHER ->
            [a EXCEPT !.focused_panel = next_panel(@, a.destination)]

\* The panels' handle_input for any other key (spec-modelled): the source
\* path is edited, the destination is toggled; the cursor moves of the
\* other panels are not state of the model.
handle_input(a) ==
    CASE a.focused_panel = "SourcePath" ->
            { [a EXCEPT !.source_path = v] : v \in PathValues }
      [] a.focused_panel = "Output" ->
            { [a EXCEPT !.destination = d] : d \in OutputDestination }
      [] OTHER -> {a}

KeyCodes == {"F10", "Esc", "F1", "F2", "F3", "Enter", "Space", "Other"}

\* Mutant: Esc requests exit whatever panel holds focus.
KeyMatchEscAlwaysExits(key, a) ==
    CASE key = "F10" -> { [a EXCEPT !.exit_requested = TRUE] }
      [] key = "Esc" -> { [a EXCEPT !.exit_requested = TRUE] }
      [] key = "F1" ->
            IF ~processing THEN { [a EXCEPT !.reload_files_needed = TRUE] } ELSE {a}
      [] key = "F2" ->
            IF ~processing THEN { [a EXCEPT !.merge_needed = TRUE] } ELSE {a}
      [] key = "F3" ->
            IF a.focused_panel = "SourcePath"
            THEN { [a EXCEPT !.source_path = ""] }
            ELSE {a}
      [] key = "Enter" -> { handle_enter(a) }
      [] key = "Space" ->
            CASE a.focused_panel = "Filters" -> filters_toggle_selected(a)
              [] a.focused_panel = "SourceFiles" -> source_files_toggle_selected(a)
              [] OTHER -> {a}
      [] key = "Other" -> handle_input(a)

\* The `match key_event.code` of update: the states it may end in.
KeyMatch(key, a) ==
    CASE key = "F10" -> { [a EXCEPT !.exit_requested = TRUE] }
      [] key = "Esc" ->
            IF a.focused_panel = "SourcePath"
            THEN { [a EXCEPT !.exit_requested = TRUE] }
            ELSE { [a EXCEPT !.focused_panel = prev_panel(@, a.destination)] }
      [] key = "F1" ->
            IF ~processing THEN { [a EXCEPT !.reload_files_needed = TRUE] } ELSE {a}
      [] key = "F2" ->
            IF ~processing THEN { [a EXCEPT !.merge_needed = TRUE] } ELSE {a}
      [] key = "F3" ->
            IF a.focused_panel = "SourcePath"
            THEN { [a EXCEPT !.source_path = ""] }
            ELSE {a}
      [] key = "Enter" -> { handle_enter(a) }
      [] key = "Space" ->
            CASE a.focused_panel = "Filters" -> filters_toggle_selected(a)
              [] a.focused_panel = "SourceFiles" -> source_files_toggle_selected(a)
              [] OTHER -> {a}
      [] key = "Other" -> handle_input(a)

\* Mutant: the rule runs on every key while SourcePath had the focus.
FocusExitRulePerKeystroke(old, a) ==
    IF old = "SourcePath" /\ a.source_path # a.prev_source_path
    THEN [a EXCEPT !.reload_files_needed = TRUE,
                   !.prev_source_path = a.source_path]
    ELSE a

\* The tail of update: dirty on focus exit.
FocusExitRule(old, a) ==
    IF old = "SourcePath" /\ a.focused_panel # "SourcePath"
       /\ a.source_path # a.prev_source_path
    THEN [a EXCEPT !.reload_files_needed = TRUE,
                   !.prev_source_path = a.source_path]
    ELSE a

Commit(r) ==
    /\ focused_panel' = r.focused_panel
    /\ destination' = r.destination
    /\ source_path' = r.source_path
    /\ prev_source_path' = r.prev_source_path
    /\ selected_extensions' = r.selected_extensions
    /\ selected_files' = r.selected_files
    /\ file_token_status' = r.file_token_status
    /\ title_sum' = r.title_sum
    /\ exit_requested' = r.exit_requested
    /\ reload_files_needed' = r.reload_files_needed
    /\ merge_needed' = r.merge_needed
    /\ tasks' = AddTasks(tasks, r.spawn)
    /\ spawned' = [p \in Files |-> spawned[p] + (IF p \in r.spawn THEN 1 ELSE 0)]
    /\ last_op' = r.op
    /\ last_merge' = NoMerge
    /\ UNCHANGED << loaded_files, text_source, processing, channel, host_pc,
                    reloaded_path >>

Update(key) ==
    \E m \in KeyMatch(key, AppNow) :
        /\ InFlight + Cardinality(m.spawn) <= MaxInFlight
        /\ Commit(FocusExitRule(focused_panel, m))

KeyF10 == Update("F10")

KeyEsc == Update("Esc")

KeyF1 == Update("F1")

KeyF2 == Update("F2")

KeyF3 == Update("F3")

KeyEnter == Update("Enter")

KeySpace == Update("Space")

KeyOther == Update("Other")

AnyKey == \E key \in KeyCodes : Update(key)

---------------------------------------------------------------------------
(* Reload pipeline: App::reload_files_immediate *)

IndexResults ==
    { [ok |-> TRUE, files |-> l] : l \in Listings } \cup { [ok |-> FALSE, files |-> <<>>] }

\* Mutant: a reload whose text source cannot be built keeps the old list.
ReloadedFilesKeptOnFailure(ts_ok, idx) ==
    IF ts_ok THEN (IF idx.ok THEN idx.files ELSE <<>>) ELSE loaded_files

\* What loaded_files holds after the two awaits.
ReloadedFiles(ts_ok, idx) ==
    IF ts_ok THEN (IF idx.ok THEN idx.files ELSE <<>>) ELSE <<>>

\* Every task still running now dates from before the reload.
Outdated(tk) ==
    [k \in TaskKinds |->
        IF k.cur THEN 0
        ELSE tk[k] + tk[[path |-> k.path, cur |-> TRUE]]]

\* Mutant: the reload replaces the list but never calls the init_values of
\* the two panels.
reload_files_immediate_without_init_values(ts_ok, idx) ==
    /\ reload_files_needed' = FALSE
    /\ text_source' = ts_ok
    /\ loaded_files' = ReloadedFiles(ts_ok, idx)
    /\ tasks' = Outdated(tasks)
    /\ spawned' = [p \in Files |-> 0]
    /\ last_op' = IF ts_ok THEN "reload" ELSE "reload_failed"
    /\ last_merge' = NoMerge
    /\ reloaded_path' = source_path
    /\ UNCHANGED << focused_panel, destination, source_path, prev_source_path,
                    selected_extensions, selected_files, file_token_status,
                    title_sum, exit_requested, merge_needed, channel >>

reload_files_immediate(ts_ok, idx) ==
    LET files == ReloadedFiles(ts_ok, idx)
        exts == { Extension(p) : p \in Range(files) }
    IN /\ reload_files_needed' = FALSE
       /\ text_source' = ts_ok
       /\ loaded_files' = files
       \* FiltersPanel::init_values, SourceFilesPanel::init_values (spec-modelled)
       /\ selected_extensions' = selected_extensions \cap exts
       /\ selected_files' = selected_files \cap Range(files)
       /\ file_token_status' = [p \in Range(files) |-> NotCounted]
       /\ title_sum' = 0
       /\ tasks' = Outdated(tasks)
       /\ spawned' = [p \in Files |-> 0]
       /\ last_op' = IF ts_ok THEN "reload" ELSE "reload_failed"
       /\ last_merge' = NoMerge
       /\ reloaded_path' = source_path
       /\ UNCHANGED << focused_panel, destination, source_path, prev_source_path,
                       exit_requested, merge_needed, channel >>

---------------------------------------------------------------------------
(* Merge pipeline: App::merge_immediate *)

\* The loop that fills files_map: a HashMap keyed by path, holding for each
\* key the position in loaded_files of the entry inserted last.
RECURSIVE FilesMapUpTo(_, _, _)
FilesMapUpTo(loaded, sel, n) ==
    IF n = 0 THEN [k \in {} |-> 0]
    ELSE LET m == FilesMapUpTo(loaded, sel, n - 1)
         IN IF loaded[n] \in sel
            THEN [k \in DOMAIN m \cup {loaded[n]} |-> IF k = loaded[n] THEN n ELSE m[k]]
            ELSE m

\* Mutant: the loop inserts every loaded file, selected or not.
FilesMapAllLoaded(loaded, sel) == FilesMapUpTo(loaded, Range(loaded), Len(loaded))

FilesMap(loaded, sel) == FilesMapUpTo(loaded, sel, Len(loaded))

\* Whether merge_immediate calls copy_clipboard.
CopyAttempted(dest, write_ok) == write_ok /\ dest = "FileAndClipboard"

\* What merge_immediate does with the Err of copy_clipboard: `let _ = ...`
\* drops it.
CopyErrorReported(copy_ok) == FALSE

\* The effects of one run: the writer's result and the clipboard's are inputs.
MergeEffects(write_ok, copy_ok) ==
    [ran |-> TRUE,
     keys |-> DOMAIN FilesMap(loaded_files, selected_files),
     write_ok |-> write_ok,
     copy |-> IF CopyAttempted(destination, write_ok)
              THEN (IF copy_ok THEN "ok" ELSE "failed")
              ELSE "none",
     copy_error_reported |->
         CopyAttempted(destination, write_ok) /\ ~copy_ok /\ CopyErrorReported(copy_ok)]

\* Mutant: the merge also clears the reload request.
merge_immediate_clears_reload ==
    /\ merge_needed' = FALSE
    /\ reload_files_needed' = FALSE
    /\ last_op' = "other"
    /\ \E write_ok \in BOOLEAN, copy_ok \in BOOLEAN :
          last_merge' = MergeEffects(write_ok, copy_ok)
    /\ UNCHANGED << focused_panel, destination, source_path, prev_source_path,
                    loaded_files, selected_extensions, selected_files,
                    file_token_status, title_sum, text_source, exit_requested,
                    tasks, channel, spawned, reloaded_path >>

merge_immediate ==
    /\ merge_needed' = FALSE
    /\ last_op' = "other"
    /\ \E write_ok \in BOOLEAN, copy_ok \in BOOLEAN :
          last_merge' = MergeEffects(write_ok, copy_ok)
    /\ UNCHANGED << focused_panel, destination, source_path, prev_source_path,
                    loaded_files, selected_extensions, selected_files,
                    file_token_status, title_sum, text_source, exit_requested,
                    reload_files_needed, tasks, channel, spawned, reloaded_path >>

---------------------------------------------------------------------------
(* The host loop (spec-modelled): it honours a request flag when not       *)
(* processing, sets processing before the pipeline and clears it after.    *)

HostBegin(pipeline) ==
    /\ host_pc = "idle"
    /\ ~processing
    /\ processing' = TRUE
    /\ host_pc' = pipeline
    /\ last_op' = "other"
    /\ last_merge' = NoMerge
    /\ UNCHANGED << focused_panel, destination, source_path, prev_source_path,
                    loaded_files, selected_extensions, selected_files,
                    file_token_status, title_sum, text_source, exit_requested,
                    reload_files_needed, merge_needed, tasks, channel, spawned,
                    reloaded_path >>

HostBeginReload == reload_files_needed /\ HostBegin("reload")

HostBeginMerge == merge_needed /\ HostBegin("merge")

HostRunReload ==
    /\ host_pc = "reload"
    /\ \E ts_ok \in BOOLEAN, idx \in IndexResults : reload_files_immediate(ts_ok, idx)
    /\ processing' = FALSE
    /\ host_pc' = "idle"

HostRunMerge ==
    /\ host_pc = "merge"
    /\ merge_immediate
    /\ processing' = FALSE
    /\ host_pc' = "idle"

---------------------------------------------------------------------------
(* Background tasks and the render tick *)

\* final_res of the task body: a failed fetch, or the tokenizer's own result.
TaskResult(fetch_ok, count_res) == IF fetch_ok THEN count_res ELSE Err

\* Mutant: a failure ends the task before its send.
TaskSendsNothingOnFailure(path, fetch_ok, count_res) ==
    IF TaskResult(fetch_ok, count_res).ok
    THEN << [path |-> path, res |-> TaskResult(fetch_ok, count_res)] >>
    ELSE << >>

\* What the task puts on the channel: one (path, final_res) message.
TaskSends(path, fetch_ok, count_res) ==
    << [path |-> path, res |-> TaskResult(fetch_ok, count_res)] >>

\* The spawned task: fetch, count, send (path, result).
TaskComplete ==
    \E k \in TaskKinds, fetch_ok \in BOOLEAN, count_res \in Results :
        /\ tasks[k] > 0
        /\ tasks' = [tasks EXCEPT ![k] = @ - 1]
        /\ channel' = channel \o TaskSends(k.path, fetch_ok, count_res)
        /\ last_op' = "other"
        /\ last_merge' = NoMerge
        /\ UNCHANGED << focused_panel, destination, source_path, prev_source_path,
                        loaded_files, selected_extensions, selected_files,
                        file_token_status, title_sum, text_source, processing,
                        exit_requested, reload_files_needed, merge_needed,
                        host_pc, spawned, reloaded_path >>

\* History: what kind of batch a drain consumed.
DrainKind(st, q) ==
    IF q = <<>> THEN "drain_empty"
    ELSE IF \A i \in 1..Len(q) : q[i].path \notin DOMAIN st THEN "drain_stale"
    ELSE IF \E i \in 1..Len(q) :
                q[i].path \in DOMAIN st /\ IsTerminal(st[q[i].path])
         THEN "drain_kept"
    ELSE "drain_applied"

\* App::draw: the drain of the channel (the rendering is not modelled).
Draw ==
    LET r == process_token_count_results(file_token_status, selected_files, channel)
    IN /\ file_token_status' = r.status
       /\ title_sum' = r.sum
       /\ channel' = <<>>
       /\ last_op' = DrainKind(file_token_status, channel)
       /\ last_merge' = NoMerge
       /\ UNCHANGED << focused_panel, destination, source_path, prev_source_path,
                       loaded_files, selected_extensions, selected_files,
                       text_source, processing, exit_requested,
                       reload_files_needed, merge_needed, tasks, host_pc, spawned,
                       reloaded_path >>

---------------------------------------------------------------------------
(* Specifications *)

\* The controller under every key, with the host's pipelines and the render
\* tick; background tasks are started and do not finish.
NextKeys ==
    \/ KeyF10
    \/ KeyEsc
    \/ KeyF1
    \/ KeyF2
    \/ KeyF3
    \/ KeyEnter
    \/ KeySpace
    \/ KeyOther
    \/ HostBeginReload
    \/ HostRunReload
    \/ HostBeginMerge
    \/ HostRunMerge
    \/ Draw

SpecKeys == Init /\ [][NextKeys]_vars

\* Token counting: navigation among the first four panels, selection, reload,
\* dispatch, task completion and drain, in every interleaving; the user
\* requests neither exit nor merge.
NavEnter == focused_panel \in {"SourcePath", "Filters", "SourceFiles"} /\ KeyEnter

NavEsc == focused_panel # "SourcePath" /\ KeyEsc

NextCount ==
    \/ KeyF1
    \/ NavEnter
    \/ NavEsc
    \/ KeySpace
    \/ HostBeginReload
    \/ HostRunReload
    \/ TaskComplete
    \/ Draw

SpecCount == Init /\ [][NextCount]_vars

Next == NextKeys \/ TaskComplete

Spec == Init /\ [][Next]_vars

\* The counting life cycle when the runtime lets every spawned task finish
\* and the host keeps calling draw.
SpecLive ==
    /\ Init
    /\ [][NextCount]_vars
    /\ WF_vars(TaskComplete)
    /\ WF_vars(Draw)

---------------------------------------------------------------------------
(* Claims *)

CyclePanels(d) == IF d = "Clipboard" THEN Panels \ {"OutputFile"} ELSE Panels

\* C1: under the current destination d, for every panel p of the focus cycle,
\* prev_panel(next_panel(p, d), d) = p and next_panel(prev_panel(p, d), d) = p.
C1_PrevInvertsNext ==
    \A p \in CyclePanels(destination) :
        /\ prev_panel(next_panel(p, destination), destination) = p
        /\ next_panel(prev_panel(p, destination), destination) = p

\* C2: when the destination is Clipboard, next_panel(Output) = SourcePath and
\* prev_panel(SourcePath) = Output, and neither function returns OutputFile
\* for a panel other than OutputFile.
C2_ClipboardElidesOutputFile ==
    destination = "Clipboard" =>
        /\ next_panel("Output", destination) = "SourcePath"
        /\ prev_panel("SourcePath", destination) = "Output"
        /\ \A p \in Panels \ {"OutputFile"} :
              /\ next_panel(p, destination) # "OutputFile"
              /\ prev_panel(p, destination) # "OutputFile"

\* C3: between two reloads at most one background task is spawned for a
\* path, and a path with a task spawned is no longer NotCounted, so that a
\* later dispatch passes it over.
C3_DispatchIdempotent ==
    \A p \in Files :
        /\ spawned[p] <= 1
        /\ spawned[p] = 1 =>
              p \in DOMAIN file_token_status /\ file_token_status[p] # NotCounted

\* A dispatch has run again over a path that already had its task.
C3_Witness ==
    /\ last_op = "redispatch"
    /\ \E p \in selected_files : spawned[p] = 1

\* C4: a path whose status is Counted or Failed keeps exactly that status in
\* every step, except a reload, which resets it to NotCounted or drops the
\* path.
C4_TerminalStatusKept ==
    [][ \A p \in DOMAIN file_token_status :
            IsTerminal(file_token_status[p]) =>
                \/ /\ p \in DOMAIN file_token_status'
                   /\ file_token_status'[p] = file_token_status[p]
                \/ /\ HostRunReload
                   /\ p \in DOMAIN file_token_status' => file_token_status'[p] = NotCounted
      ]_vars

\* A drain has consumed a message for a path whose status was terminal, and
\* the path is still terminal.
C4_Witness ==
    /\ last_op = "drain_kept"
    /\ \E p \in DOMAIN file_token_status : IsTerminal(file_token_status[p])

\* A queued message for a path is certainly the result of a task spawned
\* before the last reload when every task spawned for the path since that
\* reload is still running.
FromOldTask(m) == tasks[[path |-> m.path, cur |-> TRUE]] = spawned[m.path]

NotFromOldTask(m) == ~FromOldTask(m)

\* C5: the result of a task dispatched before a reload is discarded: a drain
\* leaves the statuses and the aggregate as if the messages of pre-reload
\* tasks were not in the channel.
C5_OldResultsDiscarded ==
    [][ Draw =>
          LET r == process_token_count_results(
                       file_token_status, selected_files,
                       SelectSeq(channel, NotFromOldTask))
          IN file_token_status' = r.status /\ title_sum' = r.sum
      ]_vars

Perms(q) ==
    LET n == Len(q)
        bij == { f \in [1..n -> 1..n] : \A i, j \in 1..n : f[i] = f[j] => i = j }
    IN { [i \in 1..n |-> q[f[i]]] : f \in bij }

\* C7: after every drain the aggregate is the sum of the Counted values over
\* the selected loaded paths, and it is the same for every arrival order of
\* the drained messages.
C7_SumOrderIndependent ==
    [][ Draw =>
          /\ title_sum' = SumCounted(file_token_status', selected_files' \cap LoadedPaths')
          /\ \A q \in Perms(channel) :
                process_token_count_results(file_token_status, selected_files, q).sum
                    = title_sum'
      ]_vars

C9_ProcessingGate ==
    [][ (processing /\ AnyKey) =>
          /\ reload_files_needed' => reload_files_needed
          /\ merge_needed' => merge_needed
      ]_vars

\* The dirty-on-focus-exit condition of a key event.
LeavesSourcePathDirty ==
    /\ focused_panel = "SourcePath"
    /\ focused_panel' # "SourcePath"
    /\ source_path' # prev_source_path

\* C10 as stated: a key event overwrites the recorded path (setting
\* reload_files_needed) exactly when focus leaves SourcePath with a changed
\* path, and a key event that leaves focus on SourcePath changes neither
\* reload_files_needed nor the recorded path.
C10_FocusExitSingleShot ==
    [][ AnyKey =>
          /\ (prev_source_path' # prev_source_path) <=> LeavesSourcePathDirty
          /\ LeavesSourcePathDirty =>
                reload_files_needed' /\ prev_source_path' = source_path'
          /\ (focused_panel = "SourcePath" /\ focused_panel' = "SourcePath") =>
                /\ reload_files_needed' = reload_files_needed
                /\ prev_source_path' = prev_source_path
      ]_vars

\* C10 amended: as above, but a key event that leaves focus on SourcePath
\* never changes the recorded path and changes reload_files_needed only when
\* it is F1 pressed while not processing, which sets it.  (Written as
\* "consequent or not a key event", which is the implication AnyKey => ...)
C10_FocusExitSingleShotAmended ==
    [][ \/ /\ (prev_source_path' # prev_source_path) <=> LeavesSourcePathDirty
           /\ LeavesSourcePathDirty =>
                 reload_files_needed' /\ prev_source_path' = source_path'
           /\ (focused_panel = "SourcePath" /\ focused_panel' = "SourcePath") =>
                 /\ prev_source_path' = prev_source_path
                 /\ \/ reload_files_needed' = reload_files_needed
                    \/ ~processing /\ reload_files_needed' /\ KeyF1
        \/ ~AnyKey
      ]_vars

\* Focus has left SourcePath with an edited path: the rule has recorded it
\* and requested the reload.
C10_Witness ==
    /\ focused_panel = "Filters"
    /\ prev_source_path # DefaultPath
    /\ prev_source_path = source_path
    /\ reload_files_needed

\* C11: a reload whose text source cannot be constructed ends with an empty
\* loaded-file list, no text source, empty selected-extensions and
\* selected-files sets (and an empty status map), and with processing false.
C11_FailedReloadClearsAll ==
    [][ (host_pc = "reload" /\ \E idx \in IndexResults : reload_files_immediate(FALSE, idx)) =>
          /\ loaded_files' = <<>>
          /\ ~text_source'
          /\ selected_extensions' = {}
          /\ selected_files' = {}
          /\ DOMAIN file_token_status' = {}
          /\ ~processing'
      ]_vars

\* A reload has just failed to build its text source although files had been
\* loaded, selected and dispatched before it: their tasks are still running.
C11_Witness ==
    /\ last_op = "reload_failed"
    /\ loaded_files = <<>>
    /\ selected_files = {}
    /\ ~processing
    /\ \E p \in Files : tasks[[path |-> p, cur |-> FALSE]] > 0

\* The step in which the host runs the reload pipeline.
ReloadStep == host_pc = "reload" /\ host_pc' = "idle"

\* C12: selected_files is always a subset of the loaded paths, and right
\* after a reload the status map has exactly the loaded paths as keys, each
\* NotCounted, and the selection holds no path absent from the new list.
C12_SelectionWithinLoaded ==
    /\ [](selected_files \subseteq LoadedPaths)
    /\ [][ ReloadStep =>
             /\ DOMAIN file_token_status' = Range(loaded_files')
             /\ \A p \in Range(loaded_files') : file_token_status'[p] = NotCounted
             /\ selected_files' \subseteq selected_files \cap Range(loaded_files')
         ]_vars

\* A reload has just replaced a list holding b, selected and dispatched, by
\* one without it: a is still selected, b is not, and b's task still runs.
C12_Witness ==
    /\ last_op = "reload"
    /\ loaded_files = <<"a">>
    /\ selected_files = {"a"}
    /\ tasks[[path |-> "b", cur |-> FALSE]] > 0

\* The step in which the host runs the merge pipeline.
MergeStep == host_pc = "merge" /\ host_pc' = "idle"

\* C13: in a merge the clipboard copy is attempted only when the destination
\* is FileAndClipboard and the writer has returned success, and a failed copy
\* leaves the write a success while being reported itself.
C13_ClipboardAfterWrite ==
    [][ MergeStep =>
          /\ last_merge'.copy # "none" =>
                destination = "FileAndClipboard" /\ last_merge'.write_ok
          /\ last_merge'.copy = "failed" =>
                last_merge'.write_ok /\ last_merge'.copy_error_reported
      ]_vars

\* Loaded lists in which a path occurs more than once.
ListingsWithDuplicates ==
    { <<"a", "a">>, <<"a", "b", "a">>, <<"b", "a", "b">>, <<"b", "b", "a">> }

\* C14: the mapping a merge hands to the writer has as keys exactly the
\* loaded paths that are selected, also for a list in which a path occurs
\* more than once, and the merge changes neither loaded_files nor
\* selected_files.
C14_FilesMapKeys ==
    [][ MergeStep =>
          /\ last_merge'.keys = LoadedPaths \cap selected_files
          /\ \A l \in ListingsWithDuplicates :
                DOMAIN FilesMap(l, selected_files) = Range(l) \cap selected_files
          /\ loaded_files' = loaded_files
          /\ selected_files' = selected_files
      ]_vars

\* A merge has just run with two files loaded and only a selected: the
\* writer was handed a alone.
C14_Witness ==
    /\ last_merge.ran
    /\ last_merge.keys = {"a"}
    /\ loaded_files = <<"a", "b">>
    /\ selected_files = {"a"}

\* C15: a key event that moves focus off SourcePath, with no reload request
\* pending and some reload already run, requests a reload exactly when the
\* path value differs from the path the most recent reload read.
C15_FocusExitAgainstLastReload ==
    [][ ( /\ focused_panel = "SourcePath"
          /\ focused_panel' # "SourcePath"
          /\ reloaded_path # NoPath
          /\ ~reload_files_needed
          /\ AnyKey ) =>
            (reload_files_needed' <=> source_path' # reloaded_path)
      ]_vars

\* The messages of a batch that are for one path, in arrival order.
MessagesFor(q, p) ==
    LET ForPath(m) == m.path = p IN SelectSeq(q, ForPath)

\* C16: a task that ends, in failure or not, sends one message, for its own
\* path; and a drain settles each path from that path's messages alone: a
\* Counting path whose first message is an Err becomes Failed, one whose
\* first message is an Ok becomes Counted, and a path changes in no other way.
C16_FailureIsolated ==
    [][ /\ \A k \in TaskKinds :
             (tasks[k] > 0 /\ tasks' = [tasks EXCEPT ![k] = @ - 1]) =>
                /\ Len(channel') = Len(channel) + 1
                /\ SubSeq(channel', 1, Len(channel)) = channel
                /\ channel'[Len(channel')].path = k.path
        /\ last_op' \in {"drain_empty", "drain_stale", "drain_kept", "drain_applied"} =>
             /\ DOMAIN file_token_status' = DOMAIN file_token_status
             /\ \A p \in DOMAIN file_token_status :
                   LET mine == MessagesFor(channel, p)
                   IN IF file_token_status[p] = Counting /\ mine # << >>
                      THEN file_token_status'[p] =
                             (IF Head(mine).res.ok THEN Counted(Head(mine).res.n)
                              ELSE Failed)
                      ELSE file_token_status'[p] = file_token_status[p]
      ]_vars

\* A drain has just applied results, and with both files loaded a is Failed
\* while b is Counted and carries the whole sum.
C16_Witness ==
    /\ last_op = "drain_applied"
    /\ loaded_files = <<"a", "b">>
    /\ file_token_status["a"] = Failed
    /\ file_token_status["b"] = Counted(1)
    /\ title_sum = 1

\* C17: reload_files_needed goes from true to false only in the reload step
\* and merge_needed only in the merge step; each step clears its own flag
\* and leaves the other's as it was; no key event clears either.
C17_FlagsOneShot ==
    /\ [](\A key \in KeyCodes : \A m \in KeyMatch(key, AppNow) :
             LET r == FocusExitRule(focused_panel, m)
             IN /\ reload_files_needed => r.reload_files_needed
                /\ merge_needed => r.merge_needed)
    /\ [][ /\ (reload_files_needed /\ ~reload_files_needed') => ReloadStep
           /\ (merge_needed /\ ~merge_needed') => MergeStep
           /\ ReloadStep =>
                 ~reload_files_needed' /\ merge_needed' = merge_needed
           /\ MergeStep =>
                 ~merge_needed' /\ reload_files_needed' = reload_files_needed
       ]_vars

\* A merge has just run while a reload request was pending, and the request
\* is still there.
C17_Witness ==
    /\ last_merge.ran
    /\ ~merge_needed
    /\ reload_files_needed

\* C18: the output-file panel never holds focus while the destination is
\* Clipboard, although prev_panel("SourcePath") is OutputFile for every
\* destination.
C18_OutputFileNeverInClipboardMode ==
    /\ focused_panel = "OutputFile" => destination # "Clipboard"
    /\ \A d \in OutputDestination : prev_panel("SourcePath", d) = "OutputFile"

\* The output-file panel holds focus after the destination has been toggled
\* away from the initial one.
C18_Witness ==
    /\ focused_panel = "OutputFile"
    /\ destination = "FileAndClipboard"

\* C20: F10 sets exit_requested whatever panel holds focus; Esc sets it when
\* SourcePath holds focus, leaving focus there, and on any other panel moves
\* focus to prev_panel and leaves exit_requested as it was; no step of any
\* kind takes exit_requested from true to false.
C20_ExitRequested ==
    /\ [](\A m \in KeyMatch("F10", AppNow) :
             FocusExitRule(focused_panel, m).exit_requested)
    /\ [](\A m \in KeyMatch("Esc", AppNow) :
             LET r == FocusExitRule(focused_panel, m)
             IN IF focused_panel = "SourcePath"
                THEN r.exit_requested /\ r.focused_panel = "SourcePath"
                ELSE /\ r.focused_panel = prev_panel(focused_panel, destination)
                     /\ r.exit_requested = exit_requested)
    /\ [][exit_requested => exit_requested']_vars

\* Exit was requested away from SourcePath, so by F10, and has outlived a
\* merge run since.
C20_Witness ==
    /\ exit_requested
    /\ focused_panel = "OutputFile"
    /\ last_merge.ran

\* C19: a path that a key event marks Counting gets a task spawned for it in
\* that same step; and, every task finishing and draw being called again and
\* again, a Counting path reaches Counted or Failed unless a reload
\* intervenes.
C19_CountingEnds ==
    /\ [][ \A p \in Files :
             ( /\ p \in DOMAIN file_token_status'
               /\ file_token_status'[p] = Counting
               /\ ~(p \in DOMAIN file_token_status /\ file_token_status[p] = Counting) ) =>
                 /\ tasks'[[path |-> p, cur |-> TRUE]] = tasks[[path |-> p, cur |-> TRUE]] + 1
                 /\ spawned'[p] = spawned[p] + 1
         ]_vars
    /\ \A p \in Files :
          (p \in DOMAIN file_token_status /\ file_token_status[p] = Counting)
             ~> \/ p \in DOMAIN file_token_status /\ IsTerminal(file_token_status[p])
                \/ last_op \in {"reload", "reload_failed"}

\* A drain has just settled a path whose one task of this load has finished.
C19_Witness ==
    /\ last_op = "drain_applied"
    /\ \E p \in DOMAIN file_token_status :
          /\ IsTerminal(file_token_status[p])
          /\ spawned[p] = 1
          /\ tasks[[path |-> p, cur |-> TRUE]] = 0

=============================================================================
